---- MODULE Spec2Model ----
(***************************************************************************)
(* The signaling server of playwright-mirror (SignalingServer in           *)
(* src/playwright-mirror/src/index.ts): the party registry, the session    *)
(* state derived from it and the lifecycle broadcasts.                     *)
(*                                                                         *)
(* One step of the model is one callback of the server's event loop: a     *)
(* "register" message arriving on a connection, or the "close" event of a  *)
(* connection.  channel.close() only starts the closing handshake: the     *)
(* "close" event of that channel is a later callback, and messages the     *)
(* peer sent before it saw the close frame are still delivered meanwhile.  *)
(***************************************************************************)
EXTENDS Integers, Sequences, FiniteSets, TLC

\* ------------------------------------------------------------------ bounds
\* Number of WebSocket connections accepted over the server's lifetime.
NumConns == 3
\* Number of "register" messages the server processes (each mints one id).
MaxIds == 4
\* Number of leader changes the server relays.
MaxChanges == 1
\* Number of sendChange calls the host makes.
MaxCalls == 3

\* Client constants: the overall bootstrap timeout and the poll interval, ms.
MAX_WAIT_FOR_SERVER_CONNECTION == 30000
Pause == 100

Channels == 1..NumConns
NoChannel == 0

\* A party is a WebSocketClient {channel, id}; NullClient stands for null.
NullClient == [channel |-> NoChannel, id |-> 0]

\* params.strict and params.expectedFollowers as given to the constructor.
StrictParams == {"undefined", "true", "false"}
undefined == -1
ExpectedParams == {undefined, 0, 1, 2}

\* The data of a {type:"change"} message: an action with its name.
Changes == {[name |-> "click", text |-> ""], [name |-> "fill", text |-> "a"]}
NoChange == [name |-> "", text |-> ""]

\* errors / management codes (constants.js)
LEADER_ALREADY_CONNECTED == "LEADER_ALREADY_CONNECTED"
LEADER_CANNOT_BE_FOLLOWER == "LEADER_CANNOT_BE_FOLLOWER"
FOLLOWER_ALREADY_CONNECTED == "FOLLOWER_ALREADY_CONNECTED"
FOLLOWER_CANNOT_BE_LEADER == "FOLLOWR_CANNOT_BE_LEADER"
CONNECTION_SUCCESS == "CONNECTION_SUCCESS"
PARTIES_CHANGED == "PARTIES_CHANGED"
\* management.CLOSE: the management object has no CLOSE member, so the read
\* yields undefined and JSON.stringify leaves the code out of the message.
CLOSE == "undefined"

\* SignalingServerEvents
LEADER_ACTION == "leaderChange"
SESSION_STARTED == "sessionStarted"
SESSION_COMPROMISED == "sessionCompromised"
LEADER_CONNECTED == "leaderConnected"
FOLLOWER_CONNECTED == "followerConnected"
FOLLOWER_DISCONNECTED == "followerDisconnected"
LEADER_DISCONNECTED == "leaderDisconnected"

VARIABLES
    revision,           \* the SignalingServer class: "src/index.ts", or "server.ts"
                        \* (the one playwright-mirror/program.ts imports)
    paramStrict,        \* params.strict
    paramExpected,      \* params.expectedFollowers
    STRICT,             \* this.STRICT
    expectedFollowers,  \* this.expectedFollowers
    leader,             \* this.leader
    followers,          \* this.followers
    waiting,            \* this._waitingForExpectedFollowers
    eventCounter,       \* this._eventCounter
    status,             \* per channel: "new" (not yet accepted), "open",
                        \* "closing" (close() called), "closed"
    closeHandlers,      \* per channel: the "close" listeners, in registration order
    messageHandlers,    \* per channel: number of leader "message" listeners
    idCounter,          \* number of ids minted by onRegistrationMessage
    phase,              \* "running"; "stopped" after stop(); "exited" after a signal
    blockedActions,     \* this._blockedActions
    relayed,            \* number of leader changes relayed so far
    _channel,           \* LeaderClient._channel: "none", "connecting", "open", "closed"
    _lastChangeSent,    \* LeaderClient._lastChangeSent
    _sentUncommittedChange,  \* LeaderClient._sentUncommittedChange
    timers,             \* the navigate changes of the pending setTimeout callbacks
    wire,               \* the changes transmitted on the leader's channel
    numCalls,           \* number of sendChange calls made by the host
    call,               \* the last dispatcher operation
    clientClass,        \* the client class: "LeaderClient", "Follower", "Follower_part_006"
    _waitingForServerConnection,  \* the client's flag of that name
    waitState,          \* waitForServerConnection: "notCalled", "polling", "returned", "failed"
    elapsed,            \* Date.now() - t of the running wait, ms
    received,           \* the last message the client received from the server
    ev,                 \* the event the last callback handled
    out                 \* what the last callback sent, emitted and closed, in order

svars == <<revision, paramStrict, paramExpected, STRICT, expectedFollowers, leader, followers,
           waiting, eventCounter, status, closeHandlers, messageHandlers, idCounter,
           phase, blockedActions, relayed, ev, out>>

dvars == <<_channel, _lastChangeSent, _sentUncommittedChange, timers, wire, numCalls, call>>

cvars == <<clientClass, _waitingForServerConnection, waitState, elapsed, received>>

vars == <<svars, dvars, cvars>>

\* The mutable part of the server, threaded through the methods below.
State == [leader |-> leader, followers |-> followers, waiting |-> waiting,
          eventCounter |-> eventCounter, status |-> status,
          closeHandlers |-> closeHandlers, messageHandlers |-> messageHandlers,
          blockedActions |-> blockedActions, out |-> <<>>]

\* ------------------------------------------------------------ dispatcher
\* LeaderClient: the leader-side dispatcher of recorded changes.

\* An ActionInContext {frame, action: {name, selector, text, url, signals},
\* committed}; members an action does not have are "".  committed is
\* "true", "false" or "undefined" (left out).
Action(name, selector, text, url, signals, committed) ==
    [name |-> name, selector |-> selector, text |-> text, url |-> url,
     signals |-> signals, committed |-> committed, frame |-> "main"]

NavigationSignal(url) == [name |-> "navigation", url |-> url]
Texts == {"a", "ab"}
Committed == {"true", "false"}
SignalLists == {<<>>, <<NavigationSignal("U")>>}

\* The changes the host passes to sendChange: every fill of selector S (the
\* ones with text "ab" made in a child frame), and beside them a fill and a
\* click of another selector, clicks, navigations to two urls and an action
\* of a fourth kind.
Fills ==
    {[Action("fill", "S", txt, "", sig, c)
         EXCEPT !.frame = IF txt = "ab" THEN "child" ELSE "main"] :
        txt \in Texts, sig \in SignalLists, c \in Committed}
    \cup {Action("fill", "T", "a", "", <<>>, "false")}
Clicks ==
    {Action("click", "S", "", "", <<>>, c) : c \in Committed}
    \cup {Action("click", "T", "", "", <<>>, "false")}
Navigates == {Action("navigate", "", "", u, <<>>, "false") : u \in {"U", "V"}}
Presses == {Action("press", "S", "", "", <<>>, "false")}
ActionsInContext == Fills \cup Clicks \cup Navigates \cup Presses

\* _lastChangeSent = null
NullAction == Action("null", "", "", "", <<>>, "undefined")

\* The dispatcher's fields, the pending timers and what went over the wire.
Dispatcher ==
    [channel |-> _channel, lastChangeSent |-> _lastChangeSent,
     sentUncommittedChange |-> _sentUncommittedChange, timers |-> timers,
     wire |-> wire, threw |-> FALSE]

\* _sameChange that compares the selectors of two fills and not their texts.
_sameChange_selectorOnly(d, change) ==
    IF d.lastChangeSent = NullAction THEN "false"
    ELSE IF change.name # d.lastChangeSent.name THEN "false"
    ELSE IF change.name \in {"fill", "click"}
    THEN IF change.selector = d.lastChangeSent.selector THEN "true" ELSE "false"
    ELSE IF change.name = "navigate"
    THEN IF change.url = d.lastChangeSent.url THEN "true" ELSE "false"
    ELSE "undefined"

\* _sameChange as a deep comparison of the two actions, whatever their kind.
_sameChange_deepEqual(d, change) ==
    IF d.lastChangeSent = NullAction THEN "false"
    ELSE IF /\ change.name = d.lastChangeSent.name
            /\ change.selector = d.lastChangeSent.selector
            /\ change.text = d.lastChangeSent.text
            /\ change.url = d.lastChangeSent.url
    THEN "true" ELSE "false"

\* _sameChange(change): "true", "false", or "undefined" when the function
\* falls off its end (an action that is no fill, click or navigate).
_sameChange(d, change) ==
    IF d.lastChangeSent = NullAction THEN "false"
    ELSE IF change.name # d.lastChangeSent.name THEN "false"
    ELSE IF change.name = "fill"
    THEN IF change.selector = d.lastChangeSent.selector
            /\ change.text = d.lastChangeSent.text THEN "true" ELSE "false"
    ELSE IF change.name = "click"
    THEN IF change.selector = d.lastChangeSent.selector THEN "true" ELSE "false"
    ELSE IF change.name = "navigate"
    THEN IF change.url = d.lastChangeSent.url THEN "true" ELSE "false"
    ELSE "undefined"

\* signals.find((signal) => signal.name === "navigation")?.url
NavigationUrl(signals) ==
    LET hits == SelectSeq(signals, LAMBDA x : x.name = "navigation")
    IN  IF hits = <<>> THEN "" ELSE hits[1].url

\* sendIncludedNavigation that does not ask for an earlier sent change.
sendIncludedNavigation_always(d, action) ==
    IF action.name # "fill" THEN d
    ELSE IF Len(action.signals) = 0 THEN d
    ELSE IF NavigationUrl(action.signals) = "" THEN d
    ELSE [d EXCEPT !.timers = Append(@,
              [Action("navigate", "", "", NavigationUrl(action.signals), <<>>, "undefined")
                  EXCEPT !.frame = action.frame])]

\* sendIncludedNavigation that passes the navigate to the channel at once
\* instead of setting a timer.
sendIncludedNavigation_immediate(d, action) ==
    IF d.lastChangeSent = NullAction THEN d
    ELSE IF action.name # "fill" THEN d
    ELSE IF Len(action.signals) = 0 THEN d
    ELSE IF NavigationUrl(action.signals) = "" THEN d
    ELSE IF d.channel # "open" THEN d
    ELSE [d EXCEPT !.wire = Append(@,
              [Action("navigate", "", "", NavigationUrl(action.signals), <<>>, "undefined")
                  EXCEPT !.frame = action.frame])]

\* sendIncludedNavigation(action): setTimeout(() => sendChange(navigate))
sendIncludedNavigation(d, action) ==
    IF d.lastChangeSent = NullAction THEN d
    ELSE IF action.name # "fill" THEN d
    ELSE IF Len(action.signals) = 0 THEN d
    ELSE IF NavigationUrl(action.signals) = "" THEN d
    ELSE [d EXCEPT !.timers = Append(@,
              [Action("navigate", "", "", NavigationUrl(action.signals), <<>>, "undefined")
                  EXCEPT !.frame = action.frame])]

\* this._channel.send(...): ws throws while the socket is connecting, sends
\* when it is open and drops the data when it is closing or closed.
ChannelSend(d, change) ==
    IF d.channel = "connecting" THEN [d EXCEPT !.threw = TRUE]
    ELSE IF d.channel = "open" THEN [d EXCEPT !.wire = Append(@, change)]
    ELSE d

\* sendChange that applies the commit before it reads the flag.
sendChange_commitFirst(d, change) ==
    IF d.channel = "none" THEN d
    ELSE IF change = NullAction THEN d
    ELSE LET d1 == sendIncludedNavigation(d, change)
             d2 == IF change.committed = "true"
                   THEN [d1 EXCEPT !.sentUncommittedChange = FALSE] ELSE d1
             shouldSend == ~(_sameChange(d2, change) = "true" /\ d2.sentUncommittedChange)
         IN  IF ~shouldSend THEN d2
             ELSE LET d3 == ChannelSend(d2, change)
                  IN  IF d3.threw THEN d3
                      ELSE [d3 EXCEPT !.lastChangeSent = change,
                                      !.sentUncommittedChange = (change.committed # "true")]

\* sendChange that looks for the embedded navigation only in a change it
\* is going to send.
sendChange_checkFirst(d, change) ==
    IF d.channel = "none" THEN d
    ELSE IF change = NullAction THEN d
    ELSE LET shouldSend == ~(_sameChange(d, change) = "true" /\ d.sentUncommittedChange)
             d1 == IF shouldSend THEN sendIncludedNavigation(d, change) ELSE d
             d2 == IF change.committed = "true"
                   THEN [d1 EXCEPT !.sentUncommittedChange = FALSE] ELSE d1
         IN  IF ~shouldSend THEN d2
             ELSE LET d3 == ChannelSend(d2, change)
                  IN  IF d3.threw THEN d3
                      ELSE [d3 EXCEPT !.lastChangeSent = change,
                                      !.sentUncommittedChange = (change.committed # "true")]

sendChange(d, change) ==
    IF d.channel = "none" THEN d
    ELSE IF change = NullAction THEN d
    ELSE LET d1 == sendIncludedNavigation(d, change)
             shouldSend == ~(_sameChange(d1, change) = "true" /\ d1.sentUncommittedChange)
             d2 == IF change.committed = "true"
                   THEN [d1 EXCEPT !.sentUncommittedChange = FALSE] ELSE d1
         IN  IF ~shouldSend THEN d2
             ELSE LET d3 == ChannelSend(d2, change)
                  IN  IF d3.threw THEN d3
                      ELSE [d3 EXCEPT !.lastChangeSent = change,
                                      !.sentUncommittedChange = (change.committed # "true")]

\* ------------------------------------------------------------ constructor
\* this.STRICT = params.strict || true
StrictOrTrue(p) == IF p = "true" THEN TRUE ELSE TRUE

\* this.expectedFollowers = params.expectedFollowers || 1
ExpectedOrOne(p) == IF p # undefined /\ p # 0 THEN p ELSE 1

\* ------------------------------------------------------------- primitives
Output(k, to, type, code, n, data) ==
    [k |-> k, to |-> to, type |-> type, code |-> code, n |-> n, data |-> data]

\* channel.send(JSON.stringify({type, data: {code}})); ws 8 does not throw
\* on a channel that is closing or closed.
Send(s, ch, type, code) ==
    [s EXCEPT !.out = Append(@, Output("send", ch, type, code, 0, <<>>))]

\* channel.close(): starts the closing handshake of an open channel.
ChannelClose(s, ch) ==
    [s EXCEPT !.status[ch] = IF @ = "open" THEN "closing" ELSE @,
              !.out = Append(@, Output("close", ch, "", "", 0, <<>>))]

\* Array.prototype.includes on an array of objects: reference identity.
\* Every client object is built by onRegistrationMessage with an id of its own.
Includes(list, client) == \E i \in 1..Len(list) : list[i] = client

\* [this.leader, ...this.followers]
Parties(s) == <<s.leader>> \o s.followers

\* emitEvent(event, data); the class of server.ts is no EventEmitter and
\* has none of the calls.
emitEvent(s, event, data) ==
    IF revision = "server.ts" THEN s
    ELSE [s EXCEPT !.out = Append(@, Output("emit", NoChannel, event, "", s.eventCounter, data)),
                   !.eventCounter = @ + 1]

RECURSIVE SendToParties(_, _, _)
SendToParties(s, parties, code) ==
    IF parties = <<>> THEN s
    ELSE IF Head(parties) = NullClient THEN SendToParties(s, Tail(parties), code)
    ELSE SendToParties(Send(s, Head(parties).channel, "management", code),
                       Tail(parties), code)

\* sendServerCloseMessages(); closeAllConnections of server.ts does not
\* send them.
sendServerCloseMessages(s) ==
    IF revision = "server.ts" THEN s ELSE SendToParties(s, Parties(s), CLOSE)

RECURSIVE CloseParties(_, _)
CloseParties(s, parties) ==
    IF parties = <<>> THEN s
    ELSE IF Head(parties) = NullClient THEN CloseParties(s, Tail(parties))
    ELSE CloseParties(ChannelClose(s, Head(parties).channel), Tail(parties))

closeAllConnections(s) == CloseParties(sendServerCloseMessages(s), Parties(s))

\* restart() that forgets to go back to waiting for the expected parties.
restart_keepsActive(s) ==
    [closeAllConnections(s) EXCEPT !.leader = NullClient,
                                   !.followers = <<>>]

\* restart() that starts the event ids over with the new session.
restart_resetsCounter(s) ==
    [closeAllConnections(s) EXCEPT !.leader = NullClient,
                                   !.followers = <<>>,
                                   !.waiting = TRUE,
                                   !.eventCounter = 0]

restart(s) ==
    [closeAllConnections(s) EXCEPT !.leader = NullClient,
                                   !.followers = <<>>,
                                   !.waiting = TRUE]

\* areExpectedPartiesConnected() that does not record that quorum was met.
areExpectedPartiesConnected_noFlag(s) ==
    IF s.leader = NullClient THEN [ret |-> FALSE, s |-> s]
    ELSE IF Len(s.followers) < expectedFollowers THEN [ret |-> FALSE, s |-> s]
    ELSE [ret |-> TRUE, s |-> s]

\* areExpectedPartiesConnected() that only looks at the leader slot.
areExpectedPartiesConnected_leaderOnly(s) ==
    IF s.leader = NullClient THEN [ret |-> FALSE, s |-> s]
    ELSE [ret |-> TRUE, s |-> [s EXCEPT !.waiting = FALSE]]

\* Returns [ret, s]: the boolean and the state after the call.
areExpectedPartiesConnected(s) ==
    IF s.leader = NullClient THEN [ret |-> FALSE, s |-> s]
    ELSE IF Len(s.followers) < expectedFollowers THEN [ret |-> FALSE, s |-> s]
    ELSE [ret |-> TRUE, s |-> [s EXCEPT !.waiting = FALSE]]

\* The payload built from the wrong member of each follower.
FollowerIds_channels(s) == [i \in 1..Len(s.followers) |-> s.followers[i].channel]

FollowerIds(s) == [i \in 1..Len(s.followers) |-> s.followers[i].id]

\* sendSetupCompleteMessages() that tells every party, not the leader alone.
sendSetupCompleteMessages_toAll(s) ==
    LET s1 == SendToParties(s, Parties(s), CONNECTION_SUCCESS)
    IN  emitEvent(s1, SESSION_STARTED, <<s1.leader.id>> \o FollowerIds(s1))

sendSetupCompleteMessages(s) ==
    LET s1 == IF s.leader # NullClient
              THEN Send(s, s.leader.channel, "management", CONNECTION_SUCCESS)
              ELSE s
    IN  emitEvent(s1, SESSION_STARTED, <<s1.leader.id>> \o FollowerIds(s1))

sendSetupCompromizedMessages(s) ==
    LET s1 == SendToParties(s, Parties(s), PARTIES_CHANGED)
        s2 == emitEvent(s1, SESSION_COMPROMISED,
                        <<s1.leader # NullClient, Len(s1.followers) > 0>>)
    IN  IF STRICT THEN restart(s2) ELSE s2

\* if (this.areExpectedPartiesConnected()) this.sendSetupCompleteMessages();
CheckQuorum(s) ==
    LET r == areExpectedPartiesConnected(s)
    IN  IF r.ret THEN sendSetupCompleteMessages(r.s) ELSE r.s

AddCloseHandler(s, role, client) ==
    [s EXCEPT !.closeHandlers[client.channel] =
                  Append(@, [role |-> role, client |-> client])]

\* registerLeader() without the "a leader is already set" rejection.
registerLeader_noLeaderCheck(s, client) ==
    IF Includes(s.followers, client)
    THEN Send(s, client.channel, "error", FOLLOWER_CANNOT_BE_LEADER)
    ELSE LET s1 == [s EXCEPT !.leader = client]
             s2 == emitEvent(s1, LEADER_CONNECTED, <<client.id>>)
             s3 == CheckQuorum(s2)
             s4 == [s3 EXCEPT !.messageHandlers[client.channel] = @ + 1]
         IN  AddCloseHandler(s4, "leader", client)

\* registerLeader() that leaves the quorum test to the followers.
registerLeader_noQuorumCheck(s, client) ==
    IF s.leader # NullClient
    THEN ChannelClose(Send(s, client.channel, "error", LEADER_ALREADY_CONNECTED),
                      client.channel)
    ELSE IF Includes(s.followers, client)
    THEN Send(s, client.channel, "error", FOLLOWER_CANNOT_BE_LEADER)
    ELSE LET s1 == [s EXCEPT !.leader = client]
             s2 == emitEvent(s1, LEADER_CONNECTED, <<client.id>>)
             s4 == [s2 EXCEPT !.messageHandlers[client.channel] = @ + 1]
         IN  AddCloseHandler(s4, "leader", client)

registerLeader(s, client) ==
    IF s.leader # NullClient
    THEN ChannelClose(Send(s, client.channel, "error", LEADER_ALREADY_CONNECTED),
                      client.channel)
    ELSE IF Includes(s.followers, client)
    THEN Send(s, client.channel, "error", FOLLOWER_CANNOT_BE_LEADER)
    ELSE LET s1 == [s EXCEPT !.leader = client]
             s2 == emitEvent(s1, LEADER_CONNECTED, <<client.id>>)
             s3 == CheckQuorum(s2)
             s4 == [s3 EXCEPT !.messageHandlers[client.channel] = @ + 1]
         IN  AddCloseHandler(s4, "leader", client)

\* registerFollower() that adds the late joiner before the compromise
\* broadcast instead of after it.
registerFollower_pushFirst(s, client) ==
    IF s.leader # NullClient /\ s.leader.channel = client.channel
    THEN Send(s, client.channel, "error", LEADER_CANNOT_BE_FOLLOWER)
    ELSE IF Includes(s.followers, client)
    THEN Send(s, client.channel, "error", FOLLOWER_ALREADY_CONNECTED)
    ELSE LET s1 == [s EXCEPT !.followers = Append(@, client)]
             s2 == IF ~s.waiting THEN sendSetupCompromizedMessages(s1) ELSE s1
             s3 == emitEvent(s2, FOLLOWER_CONNECTED, <<client.id>>)
             s4 == Send(s3, client.channel, "management", CONNECTION_SUCCESS)
             s5 == AddCloseHandler(s4, "follower", client)
         IN  CheckQuorum(s5)

\* registerFollower() that replays a change to the follower it has just added.
registerFollower_replay(s, client) ==
    IF s.leader # NullClient /\ s.leader.channel = client.channel
    THEN Send(s, client.channel, "error", LEADER_CANNOT_BE_FOLLOWER)
    ELSE IF Includes(s.followers, client)
    THEN Send(s, client.channel, "error", FOLLOWER_ALREADY_CONNECTED)
    ELSE LET s1 == IF ~s.waiting THEN sendSetupCompromizedMessages(s) ELSE s
             s2 == [s1 EXCEPT !.followers = Append(@, client)]
             s3 == emitEvent(s2, FOLLOWER_CONNECTED, <<client.id>>)
             s4 == Send(s3, client.channel, "management", CONNECTION_SUCCESS)
             s5 == AddCloseHandler(s4, "follower", client)
             s6 == [s5 EXCEPT !.out = Append(@, Output("send", client.channel,
                               "leaderChange", "", 0, [name |-> "fill", text |-> "a"]))]
         IN  CheckQuorum(s6)

\* registerFollower() without the "this connection is the leader" rejection.
registerFollower_noLeaderCheck(s, client) ==
    IF Includes(s.followers, client)
    THEN Send(s, client.channel, "error", FOLLOWER_ALREADY_CONNECTED)
    ELSE LET s1 == IF ~s.waiting THEN sendSetupCompromizedMessages(s) ELSE s
             s2 == [s1 EXCEPT !.followers = Append(@, client)]
             s3 == emitEvent(s2, FOLLOWER_CONNECTED, <<client.id>>)
             s4 == Send(s3, client.channel, "management", CONNECTION_SUCCESS)
             s5 == AddCloseHandler(s4, "follower", client)
         IN  CheckQuorum(s5)

registerFollower(s, client) ==
    IF s.leader # NullClient /\ s.leader.channel = client.channel
    THEN Send(s, client.channel, "error", LEADER_CANNOT_BE_FOLLOWER)
    ELSE IF Includes(s.followers, client)
    THEN Send(s, client.channel, "error", FOLLOWER_ALREADY_CONNECTED)
    ELSE LET s1 == IF ~s.waiting THEN sendSetupCompromizedMessages(s) ELSE s
             s2 == [s1 EXCEPT !.followers = Append(@, client)]
             s3 == emitEvent(s2, FOLLOWER_CONNECTED, <<client.id>>)
             s4 == Send(s3, client.channel, "management", CONNECTION_SUCCESS)
             s5 == AddCloseHandler(s4, "follower", client)
         IN  CheckQuorum(s5)

\* The "close" listener registerLeader installs.
leaderCloseHandler(s, client) ==
    LET s1 == [s EXCEPT !.leader = NullClient]
        s2 == emitEvent(s1, LEADER_DISCONNECTED, <<client.id>>)
    IN  sendSetupCompromizedMessages(s2)

\* The "close" listener registerFollower installs.
followerCloseHandler(s, client) ==
    LET s1 == [s EXCEPT !.followers =
                   SelectSeq(@, LAMBDA f : f.channel # client.channel)]
        s2 == emitEvent(s1, FOLLOWER_DISCONNECTED, <<client.id>>)
    IN  sendSetupCompromizedMessages(s2)

onRegistrationMessage(s, type, ws, id) ==
    IF type = "leader" THEN registerLeader(s, [channel |-> ws, id |-> id])
    ELSE registerFollower(s, [channel |-> ws, id |-> id])

\* The listeners of one channel's "close" event, run in registration order.
RECURSIVE RunCloseHandlers(_, _)
RunCloseHandlers(s, hs) ==
    IF hs = <<>> THEN s
    ELSE RunCloseHandlers(
             IF Head(hs).role = "leader" THEN leaderCloseHandler(s, Head(hs).client)
             ELSE followerCloseHandler(s, Head(hs).client),
             Tail(hs))

\* ------------------------------------------------------------------ relay
\* for (var follower of this.followers) follower.channel.send(leaderChange)
RECURSIVE SendChangeToFollowers(_, _, _)
SendChangeToFollowers(s, fs, change) ==
    IF fs = <<>> THEN s
    ELSE IF Head(fs) = NullClient THEN SendChangeToFollowers(s, Tail(fs), change)
    ELSE SendChangeToFollowers(
             [s EXCEPT !.out = Append(@, Output("send", Head(fs).channel,
                                                "leaderChange", "", 0, change))],
             Tail(fs), change)

\* processLeaderChange that does not look at the block-list.
processLeaderChange_noBlockList(s, change) ==
    SendChangeToFollowers(emitEvent(s, LEADER_ACTION, change), s.followers, change)

processLeaderChange(s, change) ==
    IF \E i \in 1..Len(s.blockedActions) : s.blockedActions[i] = change.name
    THEN s
    ELSE SendChangeToFollowers(emitEvent(s, LEADER_ACTION, change), s.followers, change)

processLeaderMessage(s, type, data) ==
    IF type = "change" THEN processLeaderChange(s, data) ELSE s

\* The n leader "message" listeners of a channel, run in turn on one message.
RECURSIVE RunMessageHandlers(_, _, _, _)
RunMessageHandlers(s, n, type, data) ==
    IF n = 0 THEN s
    ELSE RunMessageHandlers(processLeaderMessage(s, type, data), n - 1, type, data)

\* ---------------------------------------------------------------- actions
Commit(s) ==
    /\ leader' = s.leader
    /\ followers' = s.followers
    /\ waiting' = s.waiting
    /\ eventCounter' = s.eventCounter
    /\ status' = s.status
    /\ closeHandlers' = s.closeHandlers
    /\ messageHandlers' = s.messageHandlers
    /\ out' = s.out
    /\ UNCHANGED <<revision, paramStrict, paramExpected, STRICT, expectedFollowers,
                   blockedActions>>
    /\ UNCHANGED <<dvars, cvars>>

\* The fields of a LeaderClient the constructor has returned.
DispatcherConstructed ==
    /\ _lastChangeSent = NullAction
    /\ _sentUncommittedChange = FALSE
    /\ timers = <<>>
    /\ wire = <<>>
    /\ numCalls = 0
    /\ call = [op |-> "init", change |-> NullAction, threw |-> FALSE]

\* The fields of a server the constructor has returned.
ServerConstructed ==
    /\ revision = "src/index.ts"
    /\ STRICT = StrictOrTrue(paramStrict)
    /\ expectedFollowers = ExpectedOrOne(paramExpected)
    /\ leader = NullClient
    /\ followers = <<>>
    /\ waiting = TRUE
    /\ eventCounter = 0
    /\ status = [c \in Channels |-> "new"]
    /\ closeHandlers = [c \in Channels |-> <<>>]
    /\ messageHandlers = [c \in Channels |-> 0]
    /\ idCounter = 0
    /\ phase = "running"
    /\ relayed = 0
    /\ ev = [kind |-> "init", ws |-> NoChannel, type |-> "", change |-> NoChange]
    /\ out = <<>>

\* The fields of a server of server.ts the constructor has returned:
\* _waitingForExpectedFollowers is declared without an initialiser and the
\* constructor does not set it, so it is undefined, which its one read
\* (!this._waitingForExpectedFollowers) takes as false.
ServerTsConstructed ==
    /\ revision = "server.ts"
    /\ STRICT = StrictOrTrue(paramStrict)
    /\ expectedFollowers = ExpectedOrOne(paramExpected)
    /\ leader = NullClient
    /\ followers = <<>>
    /\ waiting = FALSE
    /\ eventCounter = 0
    /\ status = [c \in Channels |-> "new"]
    /\ closeHandlers = [c \in Channels |-> <<>>]
    /\ messageHandlers = [c \in Channels |-> 0]
    /\ idCounter = 0
    /\ phase = "running"
    /\ relayed = 0
    /\ ev = [kind |-> "init", ws |-> NoChannel, type |-> "", change |-> NoChange]
    /\ out = <<>>

\* The bootstrap fields of a client the constructor has returned.
ClientConstructed ==
    /\ _waitingForServerConnection = TRUE
    /\ waitState = "notCalled"
    /\ elapsed = 0
    /\ received = [type |-> "", code |-> ""]

\* A server with no LeaderClient in its process.
Constructed ==
    /\ ServerConstructed
    /\ _channel = "none"
    /\ DispatcherConstructed
    /\ clientClass = "LeaderClient"
    /\ ClientConstructed

\* params.blockedActions left out: this._blockedActions = [].
Init ==
    /\ paramStrict \in StrictParams
    /\ paramExpected \in ExpectedParams
    /\ blockedActions = <<>>
    /\ Constructed

\* wss.on("connection") installs the "message" listener of a new channel.
\* Channels are numbered in the order in which they first speak; a channel
\* that never registers leaves no trace in the server.
Accepted(ws) ==
    \/ status[ws] \in {"open", "closing"}
    \/ /\ status[ws] = "new"
       /\ phase = "running"
       /\ \A c \in Channels : c < ws => status[c] # "new"

\* A {type:"register", data:{type}} message is delivered on channel ws.  The
\* leader "message" listeners of the channel see it too and only log it as an
\* unknown type.
RegisterMessage(ws, type) ==
    /\ phase # "exited"
    /\ Accepted(ws)
    /\ idCounter < MaxIds
    /\ idCounter' = idCounter + 1
    /\ ev' = [kind |-> "register", ws |-> ws, type |-> type, change |-> NoChange]
    /\ UNCHANGED <<phase, relayed>>
    /\ LET s0 == [State EXCEPT !.status[ws] = IF @ = "new" THEN "open" ELSE @]
       IN  Commit(onRegistrationMessage(s0, type, ws, idCounter + 1))

\* The "close" event of channel ws: the peer went away, or the closing
\* handshake the server started has completed.
CloseEvent(ws) ==
    /\ phase # "exited"
    /\ status[ws] \in {"open", "closing"}
    /\ ev' = [kind |-> "close", ws |-> ws, type |-> "", change |-> NoChange]
    /\ UNCHANGED <<idCounter, phase, relayed>>
    /\ LET s0 == [State EXCEPT !.status[ws] = "closed",
                               !.closeHandlers[ws] = <<>>,
                               !.messageHandlers[ws] = 0]
       IN  Commit(RunCloseHandlers(s0, closeHandlers[ws]))

Next ==
    \/ \E ws \in Channels, type \in {"leader", "follower"} : RegisterMessage(ws, type)
    \/ \E ws \in Channels : CloseEvent(ws)

Spec == Init /\ [][Next]_vars

\* The server of server.ts: registration and close handling are those of
\* src/index.ts without the events and the close broadcast.
InitServerTs ==
    /\ paramStrict \in StrictParams
    /\ paramExpected \in ExpectedParams
    /\ blockedActions = <<>>
    /\ ServerTsConstructed
    /\ _channel = "none"
    /\ DispatcherConstructed
    /\ clientClass = "LeaderClient"
    /\ ClientConstructed

SpecServerTs == InitServerTs /\ [][Next]_vars

\* ---------------------------------------------------------- change relay
\* A {type:"change", data: change} message is delivered on channel ws.  The
\* listener of wss.on("connection") has no case for it; every leader
\* "message" listener installed on the channel processes it.
ChangeMessage(ws, change) ==
    /\ phase # "exited"
    /\ status[ws] \in {"open", "closing"}
    /\ relayed < MaxChanges
    /\ ev' = [kind |-> "change", ws |-> ws, type |-> "change", change |-> change]
    /\ UNCHANGED <<idCounter, phase>>
    /\ LET s1 == RunMessageHandlers(State, messageHandlers[ws], "change", change)
       IN  /\ Commit(s1)
           /\ relayed' = relayed + Cardinality({i \in 1..Len(s1.out) : s1.out[i].k = "emit"})

\* A server whose host blocks the click action, with strict left out.
InitRelay ==
    /\ paramStrict = "undefined"
    /\ paramExpected \in {1, 2}
    /\ blockedActions = <<"click">>
    /\ Constructed

NextRelay ==
    \/ Next
    \/ \E ws \in Channels, change \in Changes : ChangeMessage(ws, change)

\* The server with the leader's change messages.
SpecRelay == InitRelay /\ [][NextRelay]_vars

\* ------------------------------------------------------------- shutdown
\* stop(): closeAllConnections(), then this._wss.close(), after which the
\* server accepts no new connection.  The registry is left as it is.
Stop ==
    /\ phase \in {"running", "stopped"}
    /\ phase' = "stopped"
    /\ ev' = [kind |-> "stop", ws |-> NoChannel, type |-> "", change |-> NoChange]
    /\ UNCHANGED <<idCounter, relayed>>
    /\ Commit(closeAllConnections(State))

\* The SIGINT / SIGTERM listeners: closeAllConnections(), wss.close(),
\* process.exit(0).  No callback runs after the exit.
Signal ==
    /\ phase \in {"running", "stopped"}
    /\ phase' = "exited"
    /\ ev' = [kind |-> "signal", ws |-> NoChannel, type |-> "", change |-> NoChange]
    /\ UNCHANGED <<idCounter, relayed>>
    /\ Commit(closeAllConnections(State))

NextStop ==
    \/ Next
    \/ Stop
    \/ Signal

\* The server with its shutdown paths.
SpecStop == Init /\ [][NextStop]_vars

\* ------------------------------------------------- reading a callback's output
\* The channels a management message with this code was sent to, in order.
RECURSIVE SentCodeTo(_, _)
SentCodeTo(o, code) ==
    IF o = <<>> THEN <<>>
    ELSE IF Head(o).k = "send" /\ Head(o).type = "management" /\ Head(o).code = code
    THEN <<Head(o).to>> \o SentCodeTo(Tail(o), code)
    ELSE SentCodeTo(Tail(o), code)

Range(f) == {f[i] : i \in DOMAIN f}

SentTo(o, ch, type, code) ==
    \E i \in 1..Len(o) : o[i].k = "send" /\ o[i].to = ch /\ o[i].type = type /\ o[i].code = code

NumEmitted(o, event) ==
    Cardinality({i \in 1..Len(o) : o[i].k = "emit" /\ o[i].type = event})

Emitted(o, event) == NumEmitted(o, event) > 0

ClosedChannels(o) == {o[i].to : i \in {j \in 1..Len(o) : o[j].k = "close"}}

\* The channels of a list of parties, null entries skipped.
ChannelsOf(parties) ==
    LET live == SelectSeq(parties, LAMBDA p : p # NullClient)
    IN  [i \in 1..Len(live) |-> live[i].channel]

FollowerChannels == Range(ChannelsOf(followers))

\* The registered parties left when channel ws has gone.
Remaining(ws) ==
    SelectSeq(<<leader>> \o followers, LAMBDA p : p # NullClient /\ p.channel # ws)

Active == ~waiting

\* ----------------------------------------------------- dispatcher steps
sendCommitment(d, action) == [d EXCEPT !.sentUncommittedChange = FALSE]

CommitDispatcher(d) ==
    /\ _channel' = d.channel
    /\ _lastChangeSent' = d.lastChangeSent
    /\ _sentUncommittedChange' = d.sentUncommittedChange
    /\ timers' = d.timers
    /\ wire' = d.wire
    /\ UNCHANGED <<svars, cvars>>

\* The host passes a recorded change, or null, to sendChange.
SendChangeCall(change) ==
    /\ numCalls < MaxCalls
    /\ numCalls' = numCalls + 1
    /\ LET d == sendChange(Dispatcher, change)
       IN  /\ call' = [op |-> "sendChange", change |-> change, threw |-> d.threw]
           /\ CommitDispatcher(d)

\* A timer of sendIncludedNavigation fires; timers of one delay fire in the
\* order in which they were set.
TimerFires ==
    /\ timers # <<>>
    /\ LET d == sendChange([Dispatcher EXCEPT !.timers = Tail(@)], Head(timers))
       IN  /\ call' = [op |-> "timer", change |-> Head(timers), threw |-> d.threw]
           /\ CommitDispatcher(d)
    /\ UNCHANGED numCalls

SendCommitmentCall ==
    /\ call' = [op |-> "sendCommitment", change |-> NullAction, threw |-> FALSE]
    /\ CommitDispatcher(sendCommitment(Dispatcher, NullAction))
    /\ UNCHANGED numCalls

\* The "open" event of the socket: the register message goes out (it is no
\* change and is not recorded on the wire).
ChannelOpen ==
    /\ _channel = "connecting"
    /\ call' = [op |-> "open", change |-> NullAction, threw |-> FALSE]
    /\ CommitDispatcher([Dispatcher EXCEPT !.channel = "open"])
    /\ UNCHANGED numCalls

\* The socket closes: the server closed it or the connection failed.  The
\* "close" listener, installed when the socket opened, calls
\* processServerClose, which throws SignalingServerDisconnectedError.
ChannelClosed ==
    /\ _channel \in {"connecting", "open"}
    /\ call' = [op |-> "closed", change |-> NullAction, threw |-> (_channel = "open")]
    /\ CommitDispatcher([Dispatcher EXCEPT !.channel = "closed"])
    /\ UNCHANGED numCalls

\* new LeaderClient(params), with or without params.leaderWSEndpoint, beside
\* a server that plays no part.
InitDispatcher ==
    /\ paramStrict = "undefined"
    /\ paramExpected = undefined
    /\ blockedActions = <<>>
    /\ ServerConstructed
    /\ _channel \in {"none", "connecting"}
    /\ DispatcherConstructed
    /\ clientClass = "LeaderClient"
    /\ ClientConstructed

NextDispatcher ==
    \/ \E change \in ActionsInContext \cup {NullAction} : SendChangeCall(change)
    \/ TimerFires
    \/ SendCommitmentCall
    \/ ChannelOpen
    \/ ChannelClosed

SpecDispatcher == InitDispatcher /\ [][NextDispatcher]_vars

\* --------------------------------------------------------- client bootstrap
\* What LeaderClient and Follower share: the bootstrap wait and the handling
\* of the server's messages.
Clients == {"LeaderClient", "Follower", "Follower_part_006"}

Client ==
    [client |-> clientClass, channel |-> _channel,
     waiting |-> _waitingForServerConnection, waitState |-> waitState,
     elapsed |-> elapsed, raised |-> FALSE]

\* processServerManagementMessages(data): the throw of the PARTIES_CHANGED
\* case is commented out in LeaderClient and in follower.ts; no class has a
\* case for any other code.
processServerManagementMessages(c, code) ==
    IF code = CONNECTION_SUCCESS THEN [c EXCEPT !.waiting = FALSE]
    ELSE IF code = PARTIES_CHANGED
    THEN IF c.client = "Follower_part_006" THEN [c EXCEPT !.raised = TRUE] ELSE c
    ELSE c

\* processServerError(data) throws whatever the code.
processServerError(c, code) == [c EXCEPT !.raised = TRUE]

\* processServerMessages(message); a leaderChange goes to the follower's
\* browser and touches none of these fields.
processServerMessages(c, type, code) ==
    IF type = "management" THEN processServerManagementMessages(c, code)
    ELSE IF type = "error" THEN processServerError(c, code)
    ELSE c

\* waitForServerConnection() up to its first pause.
waitForServerConnection(c) ==
    IF c.client = "LeaderClient" /\ c.channel = "none"
    THEN [c EXCEPT !.waiting = FALSE, !.waitState = "returned"]
    ELSE IF ~c.waiting THEN [c EXCEPT !.waitState = "returned", !.elapsed = 0]
    ELSE [c EXCEPT !.waitState = "polling", !.elapsed = 0]

\* The wait loop that never looks at the clock.
pollWait_noClock(c, delay) ==
    IF c.waiting THEN c ELSE [c EXCEPT !.waitState = "returned"]

\* One turn of the wait loop: the pause ends after delay ms, the timeout is
\* tested, then the loop condition.
pollWait(c, delay) ==
    LET c1 == [c EXCEPT !.elapsed = @ + delay]
    IN  IF c1.elapsed > MAX_WAIT_FOR_SERVER_CONNECTION
        THEN [c1 EXCEPT !.waitState = "failed", !.raised = TRUE]
        ELSE IF c1.waiting THEN c1
        ELSE [c1 EXCEPT !.waitState = "returned"]

CommitClient(c) ==
    /\ _waitingForServerConnection' = c.waiting
    /\ waitState' = c.waitState
    /\ elapsed' = c.elapsed
    /\ UNCHANGED <<svars, clientClass, _channel, _lastChangeSent, _sentUncommittedChange,
                   timers, wire, numCalls>>

\* The host awaits waitForServerConnection().
WaitCall ==
    /\ waitState = "notCalled"
    /\ call' = [op |-> "wait", change |-> NullAction, threw |-> FALSE]
    /\ CommitClient(waitForServerConnection(Client))
    /\ UNCHANGED received

\* A pause of the wait loop ends, on time or one interval late.
PauseElapses(delay) ==
    /\ waitState = "polling"
    /\ LET c == pollWait(Client, delay)
       IN  /\ call' = [op |-> "poll", change |-> NullAction, threw |-> c.raised]
           /\ CommitClient(c)
    /\ UNCHANGED received

\* A message of the server arrives on the open socket.
ServerMessage(type, code) ==
    /\ _channel = "open"
    /\ received' = [type |-> type, code |-> code]
    /\ LET c == processServerMessages(Client, type, code)
       IN  /\ call' = [op |-> "message", change |-> NullAction, threw |-> c.raised]
           /\ CommitClient(c)

\* The messages a server sends a client; "undefined" is the code of the
\* server's close broadcast.
ServerMessages ==
    {[type |-> "management", code |-> c] :
        c \in {CONNECTION_SUCCESS, PARTIES_CHANGED, "CLOSE", CLOSE}}
    \cup {[type |-> "error", code |-> LEADER_ALREADY_CONNECTED],
          [type |-> "leaderChange", code |-> ""]}

\* A client of any class, constructed, beside a server that plays no part.
InitClient ==
    /\ paramStrict = "undefined"
    /\ paramExpected = undefined
    /\ blockedActions = <<>>
    /\ ServerConstructed
    /\ clientClass \in Clients
    /\ _channel \in IF clientClass = "LeaderClient" THEN {"none", "connecting"}
                   ELSE {"connecting"}
    /\ DispatcherConstructed
    /\ ClientConstructed

NextClient ==
    \/ WaitCall
    \/ \E delay \in {Pause, 2 * Pause} : PauseElapses(delay)
    \/ \E m \in ServerMessages : ServerMessage(m.type, m.code)
    \/ ChannelOpen
    \/ ChannelClosed

\* The timers of the wait loop fire as long as the process runs.
SpecClient ==
    InitClient /\ [][NextClient]_vars
    /\ WF_vars(\E delay \in {Pause, 2 * Pause} : PauseElapses(delay))

\* --------------------------------------------------------------- claims

\* C1: in every reachable state the follower list holds no two entries with
\* the same connection handle.
C1_NoDuplicateFollowers ==
    \A i, j \in 1..Len(followers) :
        i # j => followers[i].channel # followers[j].channel

\* C2: in every reachable state the connection that holds the leader role is
\* not in the follower list as well.
C2_LeaderNotFollower ==
    leader # NullClient => leader.channel \notin FollowerChannels

\* C3: between callbacks the session is Active exactly when a leader is set
\* and followers.length >= expectedFollowers.
C3_ActiveIffQuorum ==
    Active <=> (leader # NullClient /\ Len(followers) >= expectedFollowers)

C3_Witness ==
    /\ Active
    /\ ev.kind = "register"
    /\ \E c \in Channels : status[c] = "closed"

\* C4: a callback that takes the session from waiting to Active emits exactly
\* one SessionStarted, and SessionStarted is emitted by no other callback.
C4_OneSessionStartedPerActivation ==
    [][LET n == NumEmitted(out', SESSION_STARTED)
       IN  /\ (waiting /\ ~waiting') => n = 1
           /\ n > 0 => (waiting /\ ~waiting' /\ n = 1)]_vars

C4_Witness ==
    /\ Active
    /\ NumEmitted(out, SESSION_STARTED) = 1
    /\ eventCounter > 4

\* C5: a register-leader that arrives while a leader is set is answered with
\* error LEADER_ALREADY_CONNECTED, its connection is closed by the server, and
\* leader, followers and the Active/Waiting flag stay as they were.
C5_SecondLeaderRejected ==
    [][(ev'.kind = "register" /\ ev'.type = "leader" /\ leader # NullClient) =>
          /\ out' = <<Output("send", ev'.ws, "error", LEADER_ALREADY_CONNECTED, 0, <<>>),
                      Output("close", ev'.ws, "", "", 0, <<>>)>>
          /\ status'[ev'.ws] = "closing"
          /\ UNCHANGED <<leader, followers, waiting>>]_vars

C5_Witness ==
    /\ ev.kind = "register" /\ ev.type = "leader"
    /\ SentTo(out, ev.ws, "error", LEADER_ALREADY_CONNECTED)
    /\ leader # NullClient /\ leader.channel # ev.ws
    /\ Active

\* C6: strict mode on, session Active, a follower's connection closes: every
\* remaining party is sent PARTIES_CHANGED, SessionCompromised is emitted,
\* every remaining connection is closed, and the registry is empty and
\* waiting again.
C6_StrictFollowerDisconnect ==
    [][(STRICT /\ Active /\ ev'.kind = "close" /\ ev'.ws \in FollowerChannels) =>
          /\ Range(ChannelsOf(Remaining(ev'.ws))) \subseteq Range(SentCodeTo(out', PARTIES_CHANGED))
          /\ Emitted(out', SESSION_COMPROMISED)
          /\ Range(ChannelsOf(Remaining(ev'.ws))) \subseteq ClosedChannels(out')
          /\ leader' = NullClient /\ followers' = <<>> /\ waiting']_vars

\* C7: configured with strict=false, a compromise closes no connection and
\* keeps every remaining party in the leader slot and the follower list.
C7_NonStrictKeepsRegistry ==
    [][(paramStrict = "false" /\ Emitted(out', SESSION_COMPROMISED)) =>
          /\ ClosedChannels(out') = {}
          /\ \A c \in Range(ChannelsOf(Remaining(ev'.ws))) :
                 \/ leader' # NullClient /\ leader'.channel = c
                 \/ c \in Range(ChannelsOf(followers'))]_vars

\* C8: configured with expectedFollowers=0, the leader's registration alone
\* makes the session Active: SessionStarted is emitted and the leader is sent
\* CONNECTION_SUCCESS.
C8_ZeroFollowersQuorum ==
    [][(paramExpected = 0 /\ ev'.kind = "register" /\ ev'.type = "leader"
          /\ leader = NullClient /\ followers = <<>>) =>
          /\ ~waiting'
          /\ Emitted(out', SESSION_STARTED)
          /\ SentTo(out', ev'.ws, "management", CONNECTION_SUCCESS)]_vars

\* C9: when a registered party's connection closes, in any session state,
\* every party still registered is sent PARTIES_CHANGED, the departed one is
\* not, and SessionCompromised is emitted.
C9_DisconnectBroadcast ==
    [][(/\ ev'.kind = "close"
        /\ \/ leader # NullClient /\ leader.channel = ev'.ws
           \/ ev'.ws \in FollowerChannels) =>
          /\ Range(ChannelsOf(Remaining(ev'.ws))) \subseteq Range(SentCodeTo(out', PARTIES_CHANGED))
          /\ ev'.ws \notin Range(SentCodeTo(out', PARTIES_CHANGED))
          /\ Emitted(out', SESSION_COMPROMISED)]_vars

\* C10: a follower that registers while the session is Active is appended
\* only after PARTIES_CHANGED went to every party of the running session: the
\* broadcast covers exactly the parties registered before it, and the joiner
\* is in the follower list afterwards.
C10_LateJoinerAfterBroadcast ==
    [][(/\ ev'.kind = "register" /\ ev'.type = "follower" /\ Active
        /\ leader.channel # ev'.ws) =>
          /\ SentCodeTo(out', PARTIES_CHANGED) = ChannelsOf(<<leader>> \o followers)
          /\ Len(followers') > 0
          /\ followers'[Len(followers')] = [channel |-> ev'.ws, id |-> idCounter']]_vars

C10_Witness ==
    /\ ev.kind = "register" /\ ev.type = "follower"
    /\ Len(SentCodeTo(out, PARTIES_CHANGED)) >= 2
    /\ Len(followers) = 1 /\ followers[1].channel = ev.ws

\* The emitted events of this type, in order.
EventsOf(o, event) == SelectSeq(o, LAMBDA x : x.k = "emit" /\ x.type = event)

\* C11: a callback sends CONNECTION_SUCCESS to the connection in the leader
\* slot only if, after it, a leader is set and followers.length >=
\* expectedFollowers; a leader registering below quorum gets none.
C11_LeaderSuccessOnlyAtQuorum ==
    [][(leader' # NullClient
          /\ leader'.channel \in Range(SentCodeTo(out', CONNECTION_SUCCESS))) =>
          Len(followers') >= expectedFollowers]_vars

C11_Witness ==
    /\ ev.kind = "register" /\ ev.type = "follower"
    /\ expectedFollowers = 2 /\ Len(followers) = 2
    /\ leader # NullClient /\ leader.channel # ev.ws
    /\ leader.channel \in Range(SentCodeTo(out, CONNECTION_SUCCESS))

\* C12 (as claimed): every CONNECTION_SUCCESS a callback sends goes to the
\* connection in the leader slot; no follower connection is sent one.
C12_SuccessToLeaderOnly ==
    [][\A c \in Range(SentCodeTo(out', CONNECTION_SUCCESS)) :
          leader' # NullClient /\ c = leader'.channel]_vars

\* C12 (amended): the CONNECTION_SUCCESS messages of a callback are exactly
\* one to a follower whose registration it accepted, followed by one to the
\* leader if the callback met quorum; no other follower is sent one.
C12_SuccessToJoinerAndLeader ==
    [][SentCodeTo(out', CONNECTION_SUCCESS) =
          (IF Emitted(out', FOLLOWER_CONNECTED) THEN <<ev'.ws>> ELSE <<>>)
          \o (IF waiting /\ ~waiting' THEN <<leader'.channel>> ELSE <<>>)]_vars

C12_Witness ==
    /\ ev.kind = "register" /\ ev.type = "follower"
    /\ expectedFollowers = 2 /\ Len(followers) = 2
    /\ leader # NullClient
    /\ SentCodeTo(out, CONNECTION_SUCCESS) = <<ev.ws, leader.channel>>
    /\ followers[1].channel # ev.ws

\* C13: the SessionStarted event of a callback that met quorum carries the id
\* of the leader and the ids of the followers then registered, in the order
\* in which they registered.
C13_SessionStartedPayload ==
    [][\A i \in 1..Len(out') :
          (out'[i].k = "emit" /\ out'[i].type = SESSION_STARTED) =>
              /\ leader' # NullClient
              /\ out'[i].data = <<leader'.id>> \o [j \in 1..Len(followers') |-> followers'[j].id]
              /\ \A j, k \in 1..Len(followers') :
                     j < k => followers'[j].id < followers'[k].id]_vars

C13_Witness ==
    /\ Len(EventsOf(out, SESSION_STARTED)) = 1
    /\ Len(followers) = 2
    /\ followers[1].channel # followers[2].channel
    /\ EventsOf(out, SESSION_STARTED)[1].data = <<leader.id, followers[1].id, followers[2].id>>

\* The position of the first output of a channel with these fields, 0 if none.
FirstIndex(o, k, ch, code) ==
    LET hits == {i \in 1..Len(o) : o[i].k = k /\ o[i].to = ch /\ o[i].code = code}
    IN  IF hits = {} THEN 0 ELSE CHOOSE i \in hits : \A j \in hits : i <= j

\* C14: stop() and the signal listeners send every registered party a
\* management message with code CLOSE before they close its connection, in
\* strict and in non-strict configurations.
C14_CloseBroadcastOnShutdown ==
    [][(ev'.kind \in {"stop", "signal"}) =>
          \A c \in Range(ChannelsOf(<<leader>> \o followers)) :
              /\ SentTo(out', c, "management", "CLOSE")
              /\ FirstIndex(out', "close", c, "") > 0
              /\ FirstIndex(out', "send", c, "CLOSE") < FirstIndex(out', "close", c, "")]_vars

\* The leaderChange messages among the outputs o, in the order sent.
Relays(o) == SelectSeq(o, LAMBDA x : x.k = "send" /\ x.type = "leaderChange")

IsBlocked(name) == \E i \in 1..Len(blockedActions) : blockedActions[i] = name

FromLeader(ws) == leader # NullClient /\ leader.channel = ws

\* C15: a change message from the leader whose action name is not blocked
\* makes the server send exactly one leaderChange with that change to every
\* entry of the follower list, in list order, and emit exactly one
\* LeaderAction event.
C15_FanOutOncePerChange ==
    [][(ev'.kind = "change" /\ FromLeader(ev'.ws) /\ ~IsBlocked(ev'.change.name)) =>
          /\ Len(Relays(out')) = Len(followers)
          /\ \A i \in 1..Len(Relays(out')) :
                 /\ i <= Len(followers)
                 /\ Relays(out')[i].to = followers[i].channel
                 /\ Relays(out')[i].data = ev'.change
          /\ NumEmitted(out', LEADER_ACTION) = 1]_vars

\* C16: a change whose action name is blocked is dropped: no leaderChange is
\* sent, no LeaderAction is emitted, and leader, followers and the waiting
\* flag stay as they were.
C16_BlockedChangeDropped ==
    [][(ev'.kind = "change" /\ IsBlocked(ev'.change.name)) =>
          /\ Relays(out') = <<>>
          /\ ~Emitted(out', LEADER_ACTION)
          /\ UNCHANGED <<leader, followers, waiting>>]_vars

C16_Witness ==
    /\ ev.kind = "change"
    /\ IsBlocked(ev.change.name)
    /\ FromLeader(ev.ws)
    /\ messageHandlers[ev.ws] > 0
    /\ Len(followers) >= 1
    /\ out = <<>>

\* C17: for one change message each follower connection is sent at most one
\* leaderChange.
C17_AtMostOncePerFollower ==
    [][(ev'.kind = "change") =>
          \A c \in Channels :
              Cardinality({i \in 1..Len(Relays(out')) : Relays(out')[i].to = c}) <= 1]_vars

\* C18: a change message from a connection that does not hold the leader role
\* when it is processed is not relayed to any follower.
C18_OnlyCurrentLeaderRelays ==
    [][(ev'.kind = "change" /\ ~FromLeader(ev'.ws)) => Relays(out') = <<>>]_vars

\* C19: a leaderChange is sent only in the step that processes the change
\* message it carries, and only to connections in the follower list at that
\* step; a follower added later is never sent a change relayed earlier.
C19_NoReplayToLateJoiner ==
    [][\A i \in 1..Len(Relays(out')) :
          /\ ev'.kind = "change"
          /\ Relays(out')[i].data = ev'.change
          /\ Relays(out')[i].to \in FollowerChannels]_vars

C19_Witness ==
    /\ ev.kind = "register"
    /\ ev.type = "follower"
    /\ Emitted(out, FOLLOWER_CONNECTED)
    /\ relayed >= 1
    /\ Relays(out) = <<>>
    /\ followers # <<>>
    /\ followers[Len(followers)].channel = ev.ws

\* An uncommitted fill of this selector and text, whatever its signals.
UncommittedFill(c, selector, text) ==
    c.name = "fill" /\ c.selector = selector /\ c.text = text /\ c.committed = "false"

\* The dispatcher has made one sendChange call, on an open channel, with an
\* uncommitted fill(S, "a"), which it transmitted.
SentOnlyFillA ==
    /\ _channel = "open"
    /\ numCalls = 1
    /\ Len(wire) = 1
    /\ UncommittedFill(wire[1], "S", "a")
    /\ _lastChangeSent = wire[1]
    /\ _sentUncommittedChange

\* C20 (as claimed): after sendChange(uncommitted fill(S, "a")) on a fresh
\* dispatcher, sendChange(uncommitted fill(S, "ab")) transmits nothing: the
\* fill with text "a" stays the only change transmitted.
C20_SecondFillSuppressed ==
    [][(SentOnlyFillA /\ call'.op = "sendChange"
          /\ UncommittedFill(call'.change, "S", "ab")) =>
          wire' = wire]_vars

\* C20 (amended): after sendChange(uncommitted fill(S, "a")) on a fresh
\* dispatcher, sendChange(uncommitted fill(S, "ab")) transmits the second
\* fill too: the wire carries the fill with "a", then the fill with "ab".
C20_BothFillsTransmitted ==
    [][(SentOnlyFillA /\ call'.op = "sendChange"
          /\ UncommittedFill(call'.change, "S", "ab")) =>
          /\ wire' = Append(wire, call'.change)
          /\ _lastChangeSent' = call'.change
          /\ _sentUncommittedChange']_vars

C20_Witness ==
    /\ _channel = "open"
    /\ numCalls = 2
    /\ call.op = "sendChange"
    /\ Len(wire) = 2
    /\ UncommittedFill(wire[1], "S", "a")
    /\ UncommittedFill(wire[2], "S", "ab")
    /\ call.change = wire[2]

\* The channel is open and the last change transmitted was not committed.
LastTransmittedUncommitted ==
    /\ _channel = "open"
    /\ wire # <<>>
    /\ _lastChangeSent = wire[Len(wire)]
    /\ _lastChangeSent.committed # "true"

\* The last change sent is the same change and was sent uncommitted.
Duplicate(change) == _sameChange(Dispatcher, change) = "true" /\ _sentUncommittedChange

\* C21 (as claimed): when the last transmitted change was uncommitted,
\* sendChange of a committed change transmits it.
C21_CommitNeverSuppressed ==
    [][(LastTransmittedUncommitted /\ call'.op = "sendChange"
          /\ call'.change.committed = "true") =>
          wire' = Append(wire, call'.change)]_vars

\* C21 (amended): when the last transmitted change was uncommitted,
\* sendChange of a committed change transmits it unless it is the same change
\* as the last one sent and no commit came in between; then it is suppressed.
\* Either way the uncommitted flag is false afterwards.
C21_CommitSuppressedOnlyAsDuplicate ==
    [][(LastTransmittedUncommitted /\ call'.op = "sendChange"
          /\ call'.change.committed = "true") =>
          /\ wire' = IF Duplicate(call'.change) THEN wire ELSE Append(wire, call'.change)
          /\ ~_sentUncommittedChange']_vars

C21_Witness ==
    /\ _channel = "open"
    /\ call.op = "sendChange"
    /\ call.change.committed = "true"
    /\ numCalls = 2
    /\ Len(wire) = 1
    /\ wire[1].committed = "false"
    /\ wire[1].name = "fill"
    /\ call.change = [wire[1] EXCEPT !.committed = "true"]
    /\ _lastChangeSent = wire[1]
    /\ ~_sentUncommittedChange

\* C22: sendChange(change), called by the host or by a timer, with a channel
\* and a change that is not null, transmits the change exactly when it is no
\* duplicate (the flag read before the commit is applied); transmitting sets
\* lastSentChange to the change and sentUncommittedChange to not committed;
\* suppressing leaves lastSentChange and clears the flag only for a committed
\* change; with no channel or a null change nothing is sent or changed.
C22_SendChangeContract ==
    [][(call'.op \in {"sendChange", "timer"}) =>
          IF _channel = "none" \/ call'.change = NullAction
          THEN UNCHANGED <<wire, _lastChangeSent, _sentUncommittedChange>>
          ELSE IF ~Duplicate(call'.change)
          THEN /\ wire' = Append(wire, call'.change)
               /\ _lastChangeSent' = call'.change
               /\ _sentUncommittedChange' = (call'.change.committed # "true")
          ELSE /\ UNCHANGED <<wire, _lastChangeSent>>
               /\ _sentUncommittedChange' =
                      IF call'.change.committed = "true" THEN FALSE
                      ELSE _sentUncommittedChange]_vars

\* The same contract for the calls made while the channel is open.
OpenChannelContract ==
    [][(call'.op \in {"sendChange", "timer"} /\ _channel = "open") =>
          IF call'.change = NullAction
          THEN UNCHANGED <<wire, _lastChangeSent, _sentUncommittedChange>>
          ELSE IF ~Duplicate(call'.change)
          THEN /\ wire' = Append(wire, call'.change)
               /\ _lastChangeSent' = call'.change
               /\ _sentUncommittedChange' = (call'.change.committed # "true")
          ELSE /\ UNCHANGED <<wire, _lastChangeSent>>
               /\ _sentUncommittedChange' =
                      IF call'.change.committed = "true" THEN FALSE
                      ELSE _sentUncommittedChange]_vars

\* The navigate changes a timer of sendIncludedNavigation passes to sendChange.
SynthesizedNavigates ==
    {[Action("navigate", "", "", "U", <<>>, "undefined") EXCEPT !.frame = f] :
        f \in {"main", "child"}}

\* The three cases in which two changes count as the same.
SameCase(last, change) ==
    \/ change.name = "fill" /\ last.name = "fill"
          /\ change.selector = last.selector /\ change.text = last.text
    \/ change.name = "click" /\ last.name = "click" /\ change.selector = last.selector
    \/ change.name = "navigate" /\ last.name = "navigate" /\ change.url = last.url

\* C23: in every dispatcher state and for every change, _sameChange(change)
\* is true exactly when there is a last sent change and both are fills of one
\* selector and text, clicks of one selector, or navigates to one url; in
\* every other case (no last sent change, different kinds, two actions of
\* another kind even if identical) it yields a falsy value and no error.
C23_SameChangeCases ==
    \A change \in ActionsInContext \cup SynthesizedNavigates :
        LET same == _sameChange(Dispatcher, change)
        IN  IF _lastChangeSent # NullAction /\ SameCase(_lastChangeSent, change)
            THEN same = "true"
            ELSE same \in {"false", "undefined"}

C23_Witness ==
    /\ _channel = "open"
    /\ call.op = "sendChange"
    /\ call.change.name = "press"
    /\ wire = <<call.change, call.change>>
    /\ _lastChangeSent = call.change
    /\ _sentUncommittedChange

\* A fill that carries a navigation signal with a url.
FillWithNavigation(c) == c.name = "fill" /\ NavigationUrl(c.signals) # ""

\* The navigate change synthesized for such a fill.
NavigateFor(c) ==
    [Action("navigate", "", "", NavigationUrl(c.signals), <<>>, "undefined")
        EXCEPT !.frame = c.frame]

\* C24 (as claimed): a sendChange call, on a dispatcher with a channel, with a
\* fill that carries a navigation signal with url U sets one timer for one
\* navigate change with url U, no signals and the fill's frame.
C24_FillSchedulesNavigate ==
    [][(call'.op = "sendChange" /\ _channel # "none" /\ FillWithNavigation(call'.change)) =>
          timers' = Append(timers, NavigateFor(call'.change))]_vars

\* C24 (amended): such a call sets that one timer only if some change was
\* sent before it, and none otherwise; a timer that fires passes its navigate
\* to sendChange once, which on an open channel transmits it unless it is a
\* duplicate of the last change sent, and transmits nothing on a channel that
\* is not open.
C24_NavigateAfterEarlierChange ==
    [][/\ (call'.op = "sendChange" /\ _channel # "none" /\ FillWithNavigation(call'.change)) =>
              timers' = IF _lastChangeSent # NullAction
                        THEN Append(timers, NavigateFor(call'.change))
                        ELSE timers
       /\ (call'.op = "timer") =>
              /\ timers # <<>>
              /\ call'.change = Head(timers)
              /\ timers' = Tail(timers)
              /\ wire' = IF _channel = "open" /\ ~Duplicate(call'.change)
                         THEN Append(wire, call'.change)
                         ELSE wire]_vars

C24_Witness ==
    /\ _channel = "open"
    /\ call.op = "timer"
    /\ Len(wire) = 3
    /\ FillWithNavigation(wire[2])
    /\ wire[2].frame = "child"
    /\ wire[3] = NavigateFor(wire[2])
    /\ call.change = wire[3]
    /\ timers = <<>>

\* C25: a timer of sendIncludedNavigation that fires after the channel has
\* closed does nothing: nothing is transmitted, lastSentChange and
\* sentUncommittedChange keep their values and no error is raised.
C25_TimerAfterCloseIsNoOp ==
    [][(call'.op = "timer" /\ _channel = "closed") =>
          /\ ~call'.threw
          /\ UNCHANGED <<wire, _lastChangeSent, _sentUncommittedChange>>]_vars

\* C26: a client, leader or follower, that receives a management message
\* with code PARTIES_CHANGED or CLOSE raises SignalingServerDisconnectedError.
C26_PartiesChangedOrCloseRaises ==
    [][(call'.op = "message" /\ received'.type = "management"
          /\ received'.code \in {PARTIES_CHANGED, "CLOSE"}) => call'.threw]_vars

\* C27: waitForServerConnection always ends: a wait that polls eventually
\* returns or fails; it returns only once CONNECTION_SUCCESS has cleared the
\* flag (or, in a LeaderClient, there is no channel), and it fails only once
\* more than the overall timeout has elapsed.
C27_WaitTerminates ==
    /\ (waitState = "polling") ~> (waitState \in {"returned", "failed"})
    /\ [](waitState = "returned" => ~_waitingForServerConnection)
    /\ [](waitState = "failed" => elapsed > MAX_WAIT_FOR_SERVER_CONNECTION)
    /\ [][call'.op = "poll" /\ waitState' = "polling" =>
             _waitingForServerConnection' /\ elapsed' <= MAX_WAIT_FOR_SERVER_CONNECTION]_vars

C27_Witness ==
    /\ waitState = "failed"
    /\ call.op = "poll"
    /\ call.threw
    /\ _waitingForServerConnection
    /\ elapsed > MAX_WAIT_FOR_SERVER_CONNECTION

\* C28: a register-leader from a connection that is already in the follower
\* list is answered with error FOLLOWER_CANNOT_BE_LEADER, the connection is
\* not closed, and the leader slot stays as it was, whether or not a leader
\* is set.
C28_FollowerCannotBeLeader ==
    [][(ev'.kind = "register" /\ ev'.type = "leader" /\ ev'.ws \in FollowerChannels) =>
          /\ SentTo(out', ev'.ws, "error", FOLLOWER_CANNOT_BE_LEADER)
          /\ ev'.ws \notin ClosedChannels(out')
          /\ leader' = leader]_vars

\* C29: a register-follower from the connection in the leader slot is
\* answered with error LEADER_CANNOT_BE_FOLLOWER and nothing else: no close,
\* no PARTIES_CHANGED, no event, and leader, followers, the Active/Waiting
\* flag and the connection's state stay as they were.
C29_LeaderCannotBeFollower ==
    [][(/\ ev'.kind = "register" /\ ev'.type = "follower"
        /\ leader # NullClient /\ leader.channel = ev'.ws) =>
          /\ out' = <<Output("send", ev'.ws, "error", LEADER_CANNOT_BE_FOLLOWER, 0, <<>>)>>
          /\ UNCHANGED <<leader, followers, waiting, status, closeHandlers>>]_vars

C29_Witness ==
    /\ ev.kind = "register" /\ ev.type = "follower"
    /\ leader # NullClient /\ leader.channel = ev.ws
    /\ SentTo(out, ev.ws, "error", LEADER_CANNOT_BE_FOLLOWER)
    /\ Active
    /\ Len(followers) > 0

\* The ids of the events a callback emitted, in order.
EmittedIds(o) ==
    LET es == SelectSeq(o, LAMBDA x : x.k = "emit")
    IN  [i \in 1..Len(es) |-> es[i].n]

\* C30: event ids are strictly increasing over the server's lifetime.  The
\* counter is above every id emitted so far, so: the ids a callback emits
\* are not below the counter it found, they increase strictly, the counter
\* it leaves is above all of them, and no callback, a strict restart
\* included, lowers the counter.
C30_EventIdsIncrease ==
    [][LET ids == EmittedIds(out')
       IN  /\ \A i \in 1..Len(ids) : ids[i] >= eventCounter /\ ids[i] < eventCounter'
           /\ \A i, j \in 1..Len(ids) : i < j => ids[i] < ids[j]
           /\ eventCounter' >= eventCounter]_vars

\* A strict restart in a callback that emits two events, late in the
\* server's life.
C30_Witness ==
    /\ ev.kind = "close"
    /\ Emitted(out, SESSION_COMPROMISED)
    /\ Len(EmittedIds(out)) >= 2
    /\ EmittedIds(out)[1] >= 3
    /\ ClosedChannels(out) # {}
    /\ leader = NullClient /\ followers = <<>> /\ waiting

\* A connection the server closed in a restart: its handshake has not
\* completed, its close listeners are still installed, and it holds no role
\* of the session that followed.
ClosedByRestart(ws) ==
    /\ status[ws] = "closing"
    /\ closeHandlers[ws] # <<>>
    /\ ws \notin Range(ChannelsOf(<<leader>> \o followers))

\* C31: the close event of a connection the server closed in a strict
\* restart leaves the next session alone: no PARTIES_CHANGED is sent, no
\* connection is closed, and leader and followers stay as they were.
C31_StaleCloseLeavesNextSession ==
    [][(ev'.kind = "close" /\ ClosedByRestart(ev'.ws)) =>
          /\ SentCodeTo(out', PARTIES_CHANGED) = <<>>
          /\ ClosedChannels(out') = {}
          /\ UNCHANGED <<leader, followers>>]_vars

\* Two sendChange calls have been made and both were transmitted, the second
\* an uncommitted fill with a navigation signal; its timer has just fired and
\* the navigate went out after the fill.
NavigateFiredAfterFill ==
    /\ _channel = "open"
    /\ numCalls = 2
    /\ Len(wire) = 3
    /\ wire[2].name = "fill" /\ wire[2].committed = "false"
    /\ FillWithNavigation(wire[2])
    /\ wire[3] = NavigateFor(wire[2])
    /\ call.op = "timer"

\* C32: an uncommitted fill with the selector and text of a fill already
\* transmitted uncommitted is not transmitted again while no committed change
\* was passed to sendChange in between, also when the deferred navigate of
\* the first fill fired between the two calls.
C32_FillSuppressedAcrossNavigate ==
    [][(/\ NavigateFiredAfterFill
        /\ call'.op = "sendChange"
        /\ call'.change.name = "fill" /\ call'.change.committed = "false"
        /\ call'.change.selector = wire[2].selector
        /\ call'.change.text = wire[2].text) =>
          wire' = wire]_vars

\* Every register message so far came from a connection of its own and no
\* connection closed or was closed.
DistinctOpenParties ==
    /\ \A c \in Channels : status[c] \in {"new", "open"}
    /\ Cardinality({c \in Channels : status[c] = "open"}) = idCounter
    /\ Range(ChannelsOf(<<leader>> \o followers)) = {c \in Channels : status[c] = "open"}

\* How often CONNECTION_SUCCESS was sent to channel ch in a callback.
NumSuccessTo(o, ch) ==
    Cardinality({i \in 1..Len(o) : /\ o[i].k = "send" /\ o[i].to = ch
                                    /\ o[i].type = "management"
                                    /\ o[i].code = CONNECTION_SUCCESS})

\* C33: a leader and expectedFollowers followers register from connections
\* of their own, in any order, and nothing closes: the registration that
\* completes the party makes the session Active and sends the leader
\* CONNECTION_SUCCESS once; no registration before it does either.
C33_QuorumActivates ==
    [][(/\ DistinctOpenParties
        /\ ev'.kind = "register" /\ status[ev'.ws] = "new"
        /\ \/ ev'.type = "leader" /\ leader = NullClient
                  /\ Len(followers) <= expectedFollowers
           \/ ev'.type = "follower" /\ Len(followers) < expectedFollowers) =>
          IF leader' # NullClient /\ Len(followers') = expectedFollowers
          THEN /\ Active'
               /\ NumSuccessTo(out', leader'.channel) = 1
          ELSE /\ ~Active'
               /\ leader' # NullClient => NumSuccessTo(out', leader'.channel) = 0]_vars

\* The leader registered last, after two followers.
C33_Witness ==
    /\ expectedFollowers = 2
    /\ ev.kind = "register" /\ ev.type = "leader"
    /\ leader.channel = ev.ws
    /\ Len(followers) = 2
    /\ DistinctOpenParties
    /\ idCounter = 3
    /\ Active
    /\ NumSuccessTo(out, leader.channel) = 1

\* Nothing but at most one registration has happened since construction.
FreshServer ==
    /\ idCounter <= 1
    /\ followers = <<>>
    /\ \A c \in Channels : status[c] \in {"new", "open"}

\* C34: a freshly constructed server is waiting for its parties: the first
\* follower registration sends no PARTIES_CHANGED and restarts nothing, so a
\* leader that registered before it keeps the leader slot and is not closed.
C34_FreshServerIsWaiting ==
    [][(/\ FreshServer
        /\ ev'.kind = "register" /\ ev'.type = "follower"
        /\ status[ev'.ws] = "new") =>
          /\ SentCodeTo(out', PARTIES_CHANGED) = <<>>
          /\ ClosedChannels(out') = {}
          /\ leader' = leader
          /\ Len(followers') = 1]_vars

\* The callback handles one party-count change of an Active session: a
\* party's connection closes on the client's side, or a new connection
\* registers as a follower.  No connection holds two roles.
PartyCountChange(e) ==
    /\ Active
    /\ \A c \in Channels : Len(closeHandlers[c]) <= 1
    /\ \/ /\ e.kind = "close"
          /\ status[e.ws] = "open"
          /\ e.ws \in Range(ChannelsOf(<<leader>> \o followers))
       \/ /\ e.kind = "register" /\ e.type = "follower"
          /\ status[e.ws] = "new"

\* C35: one party-count change gives one SessionCompromised: the callback of
\* the change emits it once, and the close events of the connections the
\* strict restart closed emit no further one.
C35_OneCompromisePerChange ==
    [][/\ PartyCountChange(ev') => NumEmitted(out', SESSION_COMPROMISED) = 1
       /\ (ev'.kind = "close" /\ ClosedByRestart(ev'.ws)) =>
              NumEmitted(out', SESSION_COMPROMISED) = 0]_vars

RoleConflicts ==
    {LEADER_ALREADY_CONNECTED, LEADER_CANNOT_BE_FOLLOWER,
     FOLLOWER_ALREADY_CONNECTED, FOLLOWER_CANNOT_BE_LEADER}

\* The callback answered the registration on channel ws with a role-conflict
\* error.
Rejected(e, o, ws) ==
    /\ e.kind = "register" /\ e.ws = ws
    /\ \E code \in RoleConflicts : SentTo(o, ws, "error", code)

\* C36: a registration rejected with a role-conflict error never compromises
\* the session: the rejecting callback, and the close event of the rejected
\* connection if the server closed it, send no PARTIES_CHANGED and leave
\* leader, followers and the Active/Waiting flag as they were, also when the
\* rejected connection holds a role itself.
C36_RejectionKeepsSession ==
    [][/\ Rejected(ev', out', ev'.ws) =>
              /\ SentCodeTo(out', PARTIES_CHANGED) = <<>>
              /\ UNCHANGED <<leader, followers, waiting>>
       /\ (/\ Rejected(ev, out, ev.ws) /\ ev.ws \in ClosedChannels(out)
           /\ ev'.kind = "close" /\ ev'.ws = ev.ws) =>
              /\ SentCodeTo(out', PARTIES_CHANGED) = <<>>
              /\ UNCHANGED <<leader, followers, waiting>>]_vars

\* C37: a navigate is extracted only from a fill and only when a last sent
\* change is recorded: sendChange of a change that is no fill (the navigate
\* of a timer included), of any change while lastSentChange is null, or of a
\* fill without a navigation signal that carries a url sets no timer; on an
\* open channel a recorded last sent change is one that was transmitted.
C37_ExtractionOnlyFromFillAfterSend ==
    [][/\ (/\ call'.op = "sendChange"
           /\ \/ call'.change.name # "fill"
              \/ _lastChangeSent = NullAction
              \/ ~FillWithNavigation(call'.change)) =>
              timers' = timers
       /\ (call'.op = "sendChange" /\ timers' # timers) =>
              /\ call'.change.name = "fill"
              /\ _lastChangeSent # NullAction
              /\ _channel = "open" => wire # <<>>
       /\ (call'.op = "timer") => timers' = Tail(timers)]_vars

\* The first change passed to sendChange was a fill with a navigation
\* signal: it was transmitted and no timer was set.
C37_Witness ==
    /\ _channel = "open"
    /\ call.op = "sendChange"
    /\ numCalls = 1
    /\ FillWithNavigation(call.change)
    /\ wire = <<call.change>>
    /\ _lastChangeSent = call.change
    /\ timers = <<>>

\* The last operation was a sendChange call, on the open channel, with an
\* uncommitted fill that carries a navigation signal, and the next one is a
\* sendChange call with the same fill.
SameFillAgain ==
    /\ _channel = "open"
    /\ call.op = "sendChange"
    /\ FillWithNavigation(call.change) /\ call.change.committed = "false"
    /\ wire # <<>> /\ wire[Len(wire)] = call.change
    /\ call'.op = "sendChange"
    /\ call'.change = call.change

\* C38 (as claimed): k sendChange calls with one fill that carries a
\* navigation signal set k timers: after the first two calls of a dispatcher,
\* both with that fill, two navigates are pending.
C38_TwoCallsTwoNavigates ==
    [][(numCalls = 1 /\ SameFillAgain) => Len(timers') = 2]_vars

\* C38 (amended): the navigation is scheduled before the duplicate check and
\* whatever its outcome: a fill with a navigation signal that is suppressed
\* as a duplicate still sets one timer.  Of k calls with that fill each sets
\* a timer except a call that finds no last sent change: two calls set one
\* timer on a new dispatcher and two after an earlier change.
C38_DuplicateStillSchedules ==
    [][/\ (/\ call'.op = "sendChange" /\ _channel = "open"
           /\ FillWithNavigation(call'.change) /\ Duplicate(call'.change)) =>
              /\ wire' = wire
              /\ timers' = Append(timers, NavigateFor(call'.change))
       /\ (numCalls = 1 /\ SameFillAgain) =>
              /\ wire' = wire
              /\ timers' = <<NavigateFor(call.change)>>
       /\ (numCalls = 2 /\ Len(wire) = 2 /\ SameFillAgain) =>
              /\ wire' = wire
              /\ timers' = <<NavigateFor(call.change), NavigateFor(call.change)>>]_vars

\* A change, then the fill twice: the second fill was suppressed and two
\* navigates are pending.
C38_Witness ==
    /\ _channel = "open"
    /\ numCalls = 3
    /\ call.op = "sendChange"
    /\ FillWithNavigation(call.change)
    /\ Len(wire) = 2
    /\ wire[2] = call.change
    /\ timers = <<NavigateFor(call.change), NavigateFor(call.change)>>

\* C39: a sendChange call that transmits a fill and schedules a navigate for
\* it puts the fill on the leader's connection and leaves the navigate
\* pending; the navigate goes out only when its timer fires later, so never
\* before the fill.
C39_FillBeforeNavigate ==
    [][/\ (/\ call'.op = "sendChange" /\ _channel = "open"
           /\ FillWithNavigation(call'.change)
           /\ _lastChangeSent # NullAction
           /\ ~Duplicate(call'.change)) =>
              /\ wire' = Append(wire, call'.change)
              /\ timers' = Append(timers, NavigateFor(call'.change))
       /\ (call'.op = "timer" /\ wire' # wire) =>
              /\ timers # <<>>
              /\ wire' = Append(wire, Head(timers))
              /\ timers' = Tail(timers)
       /\ (call'.op \notin {"sendChange", "timer"}) => wire' = wire]_vars

\* Two sendChange calls, the second with a fill of the main frame that was
\* transmitted and scheduled its navigate; the timer has fired and the
\* navigate followed the fill.
C39_Witness ==
    /\ NavigateFiredAfterFill
    /\ wire[2].frame = "main"
    /\ wire[1].name = "click"
    /\ call.change = wire[3]
    /\ _lastChangeSent = wire[3]
    /\ timers = <<>>

\* C40: in every dispatcher state, sentUncommittedChange = true implies that
\* lastSentChange is not null and that the last change transmitted on the
\* leader's connection was not committed.
C40_FlagImpliesUncommittedLast ==
    _sentUncommittedChange =>
        /\ _lastChangeSent # NullAction
        /\ wire # <<>>
        /\ wire[Len(wire)].committed # "true"

\* What does hold: with the flag up, lastSentChange is a change that was not
\* committed, and while the channel is open it is the last one transmitted.
FlagImpliesUncommittedLastSent ==
    _sentUncommittedChange =>
        /\ _lastChangeSent # NullAction
        /\ _lastChangeSent.committed # "true"
        /\ _channel = "open" => (wire # <<>> /\ wire[Len(wire)] = _lastChangeSent)

====
